---- MODULE Spec2Model ----
(***************************************************************************)
(* Model of weather-on-calendar/weatherToCalDAV.py: an OpenWeatherMap      *)
(* payload is parsed into weather records (parse_weather_data), each       *)
(* record is rendered as an all-day iCalendar event (create_ical_event),   *)
(* and sync_to_caldav reconciles the records with the events of a CalDAV   *)
(* calendar: owned events are classified by date and deleted, then one     *)
(* event per record is saved.                                              *)
(*                                                                         *)
(* Time is counted in hours since the epoch and a date is a day number.    *)
(* Text is modelled by TLA+ strings; str(date) is ToString(day number).    *)
(* The CalDAV server is the environment: a set of calendar names and the   *)
(* event resources of the calendar named CALENDAR_NAME, one resource per   *)
(* UID (caldav's save_event PUTs to <uid>.ics), kept in the order the      *)
(* server lists them: a new resource is listed after the older ones.  A    *)
(* store call that fails has no effect on the server.                      *)
(*                                                                         *)
(* Spec runs the script MaxRuns times in a row on forecasts, against every *)
(* calendar content, the server failing up to MaxFaults calls;             *)
(* SpecPayloads does so on every payload, well-formed or not; SpecCrash    *)
(* lets a run be killed at any point; SpecConcurrent runs two processes at *)
(* once; SpecParser applies parse_weather_data alone to longer payloads.   *)
(***************************************************************************)
EXTENDS Integers, Sequences, FiniteSets, TLC

\* ------------------------------------------------------------------ bounds
MaxDaily == 2      \* longest data["daily"] list drawn
MaxEntries == 2    \* most events in the calendar before the first run
MaxRuns == 2       \* runs of the script in a row, same payload
MaxFaults == 1     \* store calls the server or the network fails, over all runs
MaxBlocks == 3     \* longest data["daily"] list given to the parser alone

\* --------------------------------------------------------------- constants
CALENDAR_NAME == "Weather"
HoursPerDay == 24
RetentionChoices == {0, 7} \* KEEP_PAST_DAYS as shipped (7) and "0 = keep none"
NamespaceMarker == "@weather-calendar"
Absent == "<absent>"       \* a key that is not in the dict
None == -1                 \* Python None where a date or a number is expected

ZoneOffsets == [n \in {"UTC", "Asia/Tokyo"} |-> IF n = "UTC" THEN 0 ELSE 9]

WEATHER_EMOJI == [d \in {"clear sky", "light rain"} |->
                    IF d = "clear sky" THEN "sun" ELSE "rain"]

\* ----------------------------------------------------------------- helpers
EndsWith(s, suffix) ==
    /\ Len(s) >= Len(suffix)
    /\ SubSeq(s, Len(s) - Len(suffix) + 1, Len(s)) = suffix

MinOf(S) == CHOOSE x \in S : \A y \in S : x <= y

kelvin_to_celsius(k) == k - 27315       \* hundredths of a degree

get_weather_emoji(description) ==
    IF description \in DOMAIN WEATHER_EMOJI THEN WEATHER_EMOJI[description]
    ELSE "thermometer"

\* datetime.fromtimestamp(ts, tz=ZoneInfo(name)).date()
LocalDate(ts, tzname) == (ts + ZoneOffsets[tzname]) \div HoursPerDay

\* ------------------------------------------------------ parse_weather_data
\* A block (data["current"] or an item of data["daily"]) is
\*   [dt, description, temp, temp_min, temp_max, summary, missing]
\* where missing names the required key the block lacks ("none": complete).
Has(block, key) == block.missing # key

CurrentComplete(current) ==
    /\ Has(current, "temp")
    /\ Has(current, "feels_like")
    /\ Has(current, "humidity")
    /\ Has(current, "wind_speed")

\* variant: humidity read with .get, so not required
DailyComplete_HumidityOptional(day) ==
    /\ Has(day, "temp")
    /\ Has(day, "feels_like")
    /\ Has(day, "wind_speed")

DailyComplete(day) ==
    /\ Has(day, "temp")
    /\ Has(day, "feels_like")
    /\ Has(day, "humidity")
    /\ Has(day, "wind_speed")

CurrentRecord(current, tz_name) ==
    [date        |-> LocalDate(current.dt, tz_name),
     description |-> current.description,
     emoji       |-> get_weather_emoji(current.description),
     temp        |-> kelvin_to_celsius(current.temp),
     is_current  |-> TRUE,
     temp_min    |-> None,
     temp_max    |-> None,
     summary     |-> "current: " \o current.description,  \* source prefix: the same words in Chinese
     timezone    |-> tz_name]

DailyRecord(day, tz_name) ==
    [date        |-> LocalDate(day.dt, tz_name),
     description |-> day.description,
     emoji       |-> get_weather_emoji(day.description),
     temp        |-> kelvin_to_celsius(day.temp),
     is_current  |-> FALSE,
     temp_min    |-> kelvin_to_celsius(day.temp_min),
     temp_max    |-> kelvin_to_celsius(day.temp_max),
     summary     |-> IF day.summary = Absent THEN day.description ELSE day.summary,
     timezone    |-> tz_name]

\* variant: a block on or before the current date is skipped
RECURSIVE ParseDaily_SkipPast(_, _, _, _)
ParseDaily_SkipPast(daily, tz_name, current_date, events) ==
    IF daily = <<>> THEN [ok |-> TRUE, events |-> events]
    ELSE LET day == Head(daily)
         IN  IF LocalDate(day.dt, tz_name) <= current_date
               THEN ParseDaily_SkipPast(Tail(daily), tz_name, current_date, events)
             ELSE IF ~DailyComplete(day)
               THEN [ok |-> FALSE, events |-> <<>>]
             ELSE ParseDaily_SkipPast(Tail(daily), tz_name, current_date,
                                      Append(events, DailyRecord(day, tz_name)))

\* The loop over data["daily"]: a block on the current date is skipped before
\* any of its fields is read; any other block lacking a key raises KeyError.
RECURSIVE ParseDaily(_, _, _, _)
ParseDaily(daily, tz_name, current_date, events) ==
    IF daily = <<>> THEN [ok |-> TRUE, events |-> events]
    ELSE LET day == Head(daily)
         IN  IF LocalDate(day.dt, tz_name) = current_date
               THEN ParseDaily(Tail(daily), tz_name, current_date, events)
             ELSE IF ~DailyComplete(day)
               THEN [ok |-> FALSE, events |-> <<>>]
             ELSE ParseDaily(Tail(daily), tz_name, current_date,
                             Append(events, DailyRecord(day, tz_name)))

parse_weather_data(data) ==
    IF data.timezone \notin DOMAIN ZoneOffsets      \* KeyError / ZoneInfoNotFoundError
      THEN [ok |-> FALSE, events |-> <<>>]
    ELSE IF ~CurrentComplete(data.current)          \* KeyError
      THEN [ok |-> FALSE, events |-> <<>>]
    ELSE ParseDaily(data.daily, data.timezone,
                    LocalDate(data.current.dt, data.timezone),
                    <<CurrentRecord(data.current, data.timezone)>>)

\* ------------------------------------------------------- create_ical_event
\* hashlib.md5(text).hexdigest(): a digest is written as the text it digests,
\* so that distinct texts have distinct digests.
Md5Hex(text) == "md5<" \o text \o ">"

\* variant: the digest covers the description too
EventUid_WithDescription(weather) ==
    Md5Hex("weather-" \o ToString(weather.date) \o "-" \o weather.description)
        \o NamespaceMarker

\* uid: md5 of "weather-<date>" followed by the namespace marker
EventUid(weather) ==
    Md5Hex("weather-" \o ToString(weather.date)) \o NamespaceMarker

\* f"{x:.0f}" of a value in hundredths: nearest integer, ties to even
Format0(c) ==
    LET q == c \div 100
        r == c % 100
    IN  ToString(IF r > 50 \/ (r = 50 /\ q % 2 = 1) THEN q + 1 ELSE q)

EventTitle(weather) ==
    IF weather.temp_min # None /\ weather.temp_max # None
      THEN weather.emoji \o " " \o Format0(weather.temp_min) \o "~"
             \o Format0(weather.temp_max) \o "C"
      ELSE weather.emoji \o " " \o Format0(weather.temp) \o "C"

\* A calendar resource as the script sees it: uid, dtstart and dtend
\* ([k |-> "DATE" | "DATE-TIME" | "TEXT" | "NONE", v |-> day or hour]), the title,
\* dtstamp (the hour it was written) and whether its data parses (parses = FALSE:
\* ev.icalendar_component raises).
DateValue(d) == [k |-> "DATE", v |-> d]

\* variant: a fresh uid on every rendering
create_ical_event_FreshUid(weather, now) ==
    [uid     |-> Md5Hex("weather-" \o ToString(weather.date) \o "-" \o ToString(now))
                   \o NamespaceMarker,
     dtstart |-> DateValue(weather.date),
     dtend   |-> DateValue(weather.date + 1),
     summary |-> EventTitle(weather),
     dtstamp |-> now,
     parses  |-> TRUE]

\* variant: a timed event from local midnight to local midnight, in UTC
create_ical_event_Timed(weather, now) ==
    [uid     |-> EventUid(weather),
     dtstart |-> [k |-> "DATE-TIME",
                  v |-> weather.date * HoursPerDay - ZoneOffsets[weather.timezone]],
     dtend   |-> [k |-> "DATE-TIME",
                  v |-> (weather.date + 1) * HoursPerDay - ZoneOffsets[weather.timezone]],
     summary |-> EventTitle(weather),
     dtstamp |-> now,
     parses  |-> TRUE]

create_ical_event(weather, now) ==
    [uid     |-> EventUid(weather),
     dtstart |-> DateValue(weather.date),
     dtend   |-> DateValue(weather.date + 1),
     summary |-> EventTitle(weather),
     dtstamp |-> now,
     parses  |-> TRUE]

\* ------------------------------------------------------ _extract_event_date
_extract_event_date(ical_event) ==
    LET dtstart == ical_event.dtstart
    IN  CASE dtstart.k = "NONE"      -> None
          [] dtstart.k = "DATE"      -> dtstart.v
          [] dtstart.k = "DATE-TIME" -> dtstart.v \div HoursPerDay
          [] OTHER                   -> None      \* text strptime cannot read

\* ----------------------------------------------------------- sync_to_caldav
\* variant: the marker anywhere in the uid ("in" instead of endswith)
IsOwned_Contains(uid) ==
    \E k \in 1..Len(uid) :
        k + Len(NamespaceMarker) - 1 <= Len(uid)
        /\ SubSeq(uid, k, k + Len(NamespaceMarker) - 1) = NamespaceMarker

IsOwned(uid) == EndsWith(uid, NamespaceMarker)

TodayOf(events, now) ==
    IF events = <<>> THEN now \div HoursPerDay
    ELSE MinOf({events[k].date : k \in DOMAIN events})

KeepSince(today, keep_past_days) == today - keep_past_days

\* variant: the retention cut-off day itself expires too
Classification_CutoffExpires(ev_date, today, keep_since) ==
    IF ev_date = None THEN "unknown"
    ELSE IF ev_date <= keep_since THEN "expired"
    ELSE IF ev_date >= today THEN "update"
    ELSE "keep"

\* variant: today's event is kept, only later ones are replaced
Classification_TodayKept(ev_date, today, keep_since) ==
    IF ev_date = None THEN "unknown"
    ELSE IF ev_date < keep_since THEN "expired"
    ELSE IF ev_date > today THEN "update"
    ELSE "keep"

\* variant: an event without a readable date is replaced like a current one
Classification_UnknownReplaced(ev_date, today, keep_since) ==
    IF ev_date = None THEN "update"
    ELSE IF ev_date < keep_since THEN "expired"
    ELSE IF ev_date >= today THEN "update"
    ELSE "keep"

\* the if/elif/else over an owned event's date
Classification(ev_date, today, keep_since) ==
    IF ev_date = None THEN "unknown"
    ELSE IF ev_date < keep_since THEN "expired"
    ELSE IF ev_date >= today THEN "update"
    ELSE "keep"

\* what one pass of the loop body does with an existing event
EntryAction(ev, today, keep_since) ==
    IF ~ev.parses THEN "error"
    ELSE IF ~IsOwned(ev.uid) THEN "foreign"
    ELSE Classification(_extract_event_date(ev), today, keep_since)

\* variant: no try around the loop body
Caught_Nothing(op) == FALSE

\* variant: the try covers only the delete
Caught_DeleteOnly(op) == op = "delete"

\* variant: the try covers only the reading of the event
Caught_ReadOnly(op) == op = "icalendar_component"

\* the steps whose exception the loop's try/except catches and logs
Caught(op) == op \in {"icalendar_component", "delete"}

\* variant: the events are written first, the old ones classified after
Phases_CreateFirst == <<"create", "classify">>

\* the two loops of the function body, in program order
Phases == <<"classify", "create">>

\* where control is, given the phase and the loop counters: a loop with
\* nothing left to visit is left at once
RECURSIVE ControlAt(_, _, _, _, _)
ControlAt(ph, i, nExisting, j, nEvents) ==
    IF ph > Len(Phases) THEN [pc |-> "return", phase |-> ph]
    ELSE IF Phases[ph] = "classify" /\ i > nExisting
      THEN ControlAt(ph + 1, i, nExisting, j, nEvents)
    ELSE IF Phases[ph] = "create" /\ j > nEvents
      THEN ControlAt(ph + 1, i, nExisting, j, nEvents)
    ELSE [pc |-> Phases[ph], phase |-> ph]

\* -------------------------------------------------------------------- state
VARIABLES
    data,             \* _items[0]["json"], the payload of every run
    KEEP_PAST_DAYS,   \* the configured retention
    budget,           \* server: store calls it may yet fail for reasons of its own
    original,         \* history: the events of the calendar before the first run
                      \* (kept where a property compares with it, else empty)
    peer,             \* a second run of the script on the same payload, if there is one
    calendars,        \* server: names of the principal's calendars
    store,            \* server: the events of the calendar CALENDAR_NAME, in listing order
    run,              \* number of the current run of the script
    pc,               \* position of the run
    events,           \* main: the parsed records
    log_lines,        \* main: the log of the run
    today,            \* sync_to_caldav locals
    keep_since,
    existing_events,  \* the snapshot calendar.events() returned
    phase,            \* index in Phases of the loop in progress
    i,                \* next index of the loop over existing_events
    j,                \* next index of the loop over events
    calls,            \* history: the store calls of the run, in order
    history           \* history: how each earlier run ended

vars == <<data, KEEP_PAST_DAYS, budget, original, peer, calendars, store, run, pc, events, log_lines,
          today, keep_since, existing_events, phase, i, j, calls, history>>

\* what no step of the run changes: its inputs, the server's fault budget, the
\* record of the calendar's first content, and the other process
env == <<data, KEEP_PAST_DAYS, budget, original, peer>>
locals == <<today, keep_since, existing_events, phase, i, j>>

\* datetime.now() during a run: the payload's own hour plus the run number
Now == data.current.dt + run

Line(k, d) == [k |-> k, d |-> d]
Call(op, uid, ok) == [op |-> op, uid |-> uid, ok |-> ok]

\* ------------------------------------------------------------------- inputs
Block(dt, description, temp, temp_min, temp_max, summary, missing) ==
    [dt |-> dt, description |-> description, temp |-> temp, temp_min |-> temp_min,
     temp_max |-> temp_max, summary |-> summary, missing |-> missing]

\* 20:00 UTC on day 9: day 9 in UTC, day 10 in Asia/Tokyo
CurrentBlocks ==
    { Block(236, "clear sky", 28315, None, None, Absent, m) :
        m \in {"none", "temp"} }

\* noon UTC of days 9, 10 and 11; in Asia/Tokyo the first falls on day 9, the
\* day before the current date
DailyBlocks ==
    { Block(228, "light rain", 27545, 27345, 28295, Absent, "none"),
      Block(228, "clear sky", 28315, 28015, 28515, Absent, "humidity"),
      Block(252, "clear sky", 28315, 28015, 28515, "Expect a day of sun", "none"),
      Block(252, "volcanic ash", 29000, 28800, 29365, Absent, "none"),
      Block(276, "light rain", 27545, 27345, 28295, Absent, "wind_speed") }

TimezoneNames == {"UTC", "Asia/Tokyo", "Mars/Olympus", Absent}

SeqsUpTo(S, n) == UNION {[1..k -> S] : k \in 0..n}

\* every payload: any timezone name, complete and incomplete blocks
Payloads ==
    [timezone : TimezoneNames, current : CurrentBlocks,
     daily : SeqsUpTo(DailyBlocks, MaxDaily)]

\* well-formed payloads for day 9 with forecasts for days 10 and 11
ForecastBlocks ==
    { Block(252, "clear sky", 28315, 28015, 28515, "Expect a day of sun", "none"),
      Block(276, "light rain", 27545, 27345, 28295, Absent, "none") }

ForecastPayloads ==
    [timezone : {"UTC"},
     current : {Block(236, "clear sky", 28315, None, None, Absent, "none")},
     daily : SeqsUpTo(ForecastBlocks, MaxDaily)]

\* events already in the calendar: written by an earlier run for day d ...
Written(d) ==
    [uid |-> Md5Hex("weather-" \o ToString(d)) \o NamespaceMarker,
     dtstart |-> DateValue(d), dtend |-> DateValue(d + 1),
     summary |-> "sun 10C", dtstamp |-> 0, parses |-> TRUE]

Foreign(uid, d) == [Written(d) EXCEPT !.uid = uid, !.summary = "Lunch"]

\* ... or damaged since, or put there by somebody else; in the order the
\* server lists them
ExistingChoices ==
    << [Written(10) EXCEPT !.parses = FALSE],
       Foreign("lunch@example.com", 1),
       Written(1),
       Written(2),
       [Written(9) EXCEPT !.dtstart = [k |-> "DATE-TIME", v |-> 219]],
       Foreign("x@weather-calendar.example.com", 10),
       Written(10),
       [Written(11) EXCEPT !.dtstart = [k |-> "NONE", v |-> 0]] >>

Entries(st) == { st[k] : k \in DOMAIN st }

UniqueUids(st) == \A a, b \in DOMAIN st : st[a].uid = st[b].uid => a = b

Reverse(seq) == [k \in DOMAIN seq |-> seq[Len(seq) + 1 - k]]

\* the choices at the positions P, in the order of ExistingChoices
RECURSIVE Listed(_)
Listed(P) ==
    IF P = {} THEN <<>>
    ELSE LET m == CHOOSE x \in P : \A y \in P : y <= x
         IN  Append(Listed(P \ {m}), ExistingChoices[m])

\* up to MaxEntries existing events of distinct uid, listed either way round
Stores ==
    LET picks == { Listed(P) : P \in { Q \in SUBSET DOMAIN ExistingChoices :
                                         Cardinality(Q) <= MaxEntries } }
    IN  { st \in picks \cup { Reverse(p) : p \in picks } : UniqueUids(st) }

\* an event written for day 10 that a calendar client has since moved to day 8:
\* the uid stays, dtstart and dtend change
Moved == [Written(10) EXCEPT !.dtstart = DateValue(8), !.dtend = DateValue(9)]

FewStores == { <<>>, <<Written(10), Foreign("lunch@example.com", 10)>>, <<Moved>> }

\* the second process before it has started and where there is none
NoPeer == [pc |-> "off", existing_events |-> <<>>, phase |-> 0, i |-> 1, j |-> 1,
           calls |-> <<>>]

StartOfRun ==
    /\ run = 1
    /\ pc = "main"
    /\ events = <<>>
    /\ log_lines = <<>>
    /\ today = None
    /\ keep_since = None
    /\ existing_events = <<>>
    /\ phase = 0
    /\ i = 1
    /\ j = 1
    /\ calls = <<>>
    /\ history = <<>>

\* forecasts against every calendar content
Init ==
    /\ data \in ForecastPayloads
    /\ KEEP_PAST_DAYS \in RetentionChoices
    /\ \/ calendars = {CALENDAR_NAME, "Personal"} /\ store \in Stores
       \/ calendars = {"weather"} /\ store = <<>>
    /\ budget = MaxFaults
    /\ original = <<>>
    /\ peer = NoPeer
    /\ StartOfRun

\* every payload against a few calendar contents
InitPayloads ==
    /\ data \in Payloads
    /\ KEEP_PAST_DAYS \in RetentionChoices
    /\ \/ calendars = {CALENDAR_NAME, "Personal"} /\ store \in FewStores
       \/ calendars = {"weather"} /\ store = <<>>
    /\ budget = MaxFaults
    /\ original = <<>>
    /\ peer = NoPeer
    /\ StartOfRun

\* ------------------------------------------------------------------ actions
\* the remote entries but for the time they were written at
Ids(S) ==
    { [uid |-> e.uid, dtstart |-> e.dtstart, dtend |-> e.dtend,
       summary |-> e.summary, parses |-> e.parses] : e \in S }

Failures(cs) == Cardinality({k \in DOMAIN cs : ~cs[k].ok})

RECURSIVE EarlierFailures(_)
EarlierFailures(h) ==
    IF h = <<>> THEN 0 ELSE Head(h).failures + EarlierFailures(Tail(h))

\* a store call may fail while the fault budget lasts
MayFail == EarlierFailures(history) + Failures(calls) < budget
Results == IF MayFail THEN BOOLEAN ELSE {TRUE}

Outcome(result, cs, st) ==
    [result |-> result, entries |-> Ids(Entries(st)), failures |-> Failures(cs)]

\* ev.delete(): DELETE of the resource
Deleted(st, uid) == SelectSeq(st, LAMBDA e : e.uid # uid)

\* variant: every save makes a new resource (POST to the collection)
Saved_AppendOnly(st, event) == Append(st, event)

\* calendar.save_event(): PUT to <uid>.ics, replacing what is there
Saved(st, event) ==
    IF \E k \in DOMAIN st : st[k].uid = event.uid
      THEN [k \in DOMAIN st |-> IF st[k].uid = event.uid THEN event ELSE st[k]]
      ELSE Append(st, event)

Header(evs) ==
    <<Line("sep", None), Line("extracted", None), Line("sep", None)>>
    \o [k \in DOMAIN evs |-> Line("record", evs[k].date)]
    \o <<Line("sep", None)>>

\* an exception leaves main: the run is over, nothing is returned
Raise(cs) ==
    /\ pc' = "failed"
    /\ history' = Append(history, Outcome("failed", cs, store'))

\* main up to the call of sync_to_caldav
Parse ==
    /\ pc = "main"
    /\ LET parsed == parse_weather_data(data)
       IN  IF parsed.ok
             THEN /\ events' = parsed.events
                  /\ log_lines' = Header(parsed.events)
                  /\ pc' = "connect"
                  /\ UNCHANGED history
             ELSE /\ UNCHANGED <<events, log_lines, store>>
                  /\ Raise(calls)
    /\ UNCHANGED <<env, calendars, store, run, locals, calls>>

\* variant: calendar names compared without regard to case
SameName_IgnoreCase(name) == name \in {"Weather", "weather", "WEATHER"}

\* cal.name == CALENDAR_NAME
SameName(name) == name = CALENDAR_NAME

\* client.principal(), principal.calendars() and the search by name
FindCalendar ==
    /\ pc = "connect"
    /\ \E ok \in Results :
         /\ calls' = Append(calls, Call("calendars", "", ok))
         /\ IF ~ok
              THEN /\ UNCHANGED <<log_lines, store>>
                   /\ Raise(calls')
            ELSE IF \E name \in calendars : SameName(name)
              THEN /\ log_lines' = Append(log_lines, Line("use_calendar", None))
                   /\ pc' = "list"
                   /\ UNCHANGED history
            ELSE   /\ log_lines' = Append(log_lines, Line("create_calendar", None))
                   /\ pc' = "make"
                   /\ UNCHANGED history
    /\ UNCHANGED <<env, calendars, store, run, events, locals>>

\* principal.make_calendar(name=CALENDAR_NAME)
MakeCalendar ==
    /\ pc = "make"
    /\ \E ok \in Results :
         /\ calls' = Append(calls, Call("make_calendar", "", ok))
         /\ IF ok
              THEN /\ calendars' = calendars \cup {CALENDAR_NAME}
                   /\ log_lines' = Append(log_lines, Line("use_calendar", None))
                   /\ pc' = "list"
                   /\ UNCHANGED history
              ELSE /\ UNCHANGED <<calendars, log_lines, store>>
                   /\ Raise(calls')
    /\ UNCHANGED <<env, store, run, events, locals>>

\* today, keep_since and calendar.events()
ListEvents ==
    /\ pc = "list"
    /\ today' = TodayOf(events, Now)
    /\ keep_since' = KeepSince(today', KEEP_PAST_DAYS)
    /\ \E ok \in Results :
         /\ calls' = Append(calls, Call("events", "", ok))
         /\ IF ok
              THEN /\ existing_events' = store
                   /\ i' = 1
                   /\ j' = 1
                   /\ LET c == ControlAt(1, 1, Len(existing_events'), 1, Len(events))
                      IN  pc' = c.pc /\ phase' = c.phase
                   /\ UNCHANGED history
              ELSE /\ UNCHANGED <<existing_events, phase, i, j, store>>
                   /\ Raise(calls')
    /\ UNCHANGED <<env, calendars, store, run, events, log_lines>>

\* on to the next element of the loop in progress, or out of it
Advance(i2, j2) ==
    LET c == ControlAt(phase, i2, Len(existing_events), j2, Len(events))
    IN  /\ i' = i2
        /\ j' = j2
        /\ pc' = c.pc
        /\ phase' = c.phase
        /\ UNCHANGED history

\* one pass of the loop over existing_events
ClassifyEntry ==
    /\ pc = "classify"
    /\ LET ev == existing_events[i]
           act == EntryAction(ev, today, keep_since)
           ev_date == _extract_event_date(ev)
       IN  CASE act = "error" ->
                  /\ UNCHANGED <<store, calls>>
                  /\ IF Caught("icalendar_component")
                       THEN /\ log_lines' = Append(log_lines, Line("error", None))
                            /\ Advance(i + 1, j)
                       ELSE /\ UNCHANGED <<log_lines, i, j, phase>>
                            /\ Raise(calls)
             [] act = "foreign" ->
                  /\ UNCHANGED <<store, calls, log_lines>>
                  /\ Advance(i + 1, j)
             [] act = "unknown" ->
                  /\ UNCHANGED <<store, calls>>
                  /\ log_lines' = Append(log_lines, Line("skip_unknown_date", None))
                  /\ Advance(i + 1, j)
             [] act = "keep" ->
                  /\ UNCHANGED <<store, calls>>
                  /\ log_lines' = Append(log_lines, Line("keep", ev_date))
                  /\ Advance(i + 1, j)
             [] act \in {"expired", "update"} ->
                  \E ok \in BOOLEAN :
                    /\ ok => \E e \in Entries(store) : e.uid = ev.uid      \* else 404
                    /\ ~ok => MayFail \/ \A e \in Entries(store) : e.uid # ev.uid
                    /\ calls' = Append(calls, Call("delete", ev.uid, ok))
                    /\ store' = IF ok THEN Deleted(store, ev.uid) ELSE store
                    /\ IF ok
                         THEN /\ log_lines' = Append(log_lines, Line(act, ev_date))
                              /\ Advance(i + 1, j)
                       ELSE IF Caught("delete")
                         THEN /\ log_lines' = log_lines
                                     \o <<Line(act, ev_date), Line("error", None)>>
                              /\ Advance(i + 1, j)
                       ELSE   /\ UNCHANGED <<log_lines, i, j, phase>>
                              /\ Raise(calls')
    /\ UNCHANGED <<env, calendars, run, events, today, keep_since, existing_events>>

\* one pass of the loop over events: render and calendar.save_event
CreateEvent ==
    /\ pc = "create"
    /\ LET weather == events[j]
           event == create_ical_event(weather, Now)
       IN  \E ok \in Results :
             /\ calls' = Append(calls, Call("save_event", event.uid, ok))
             /\ IF ok
                  THEN /\ store' = Saved(store, event)
                       /\ log_lines' = Append(log_lines, Line("added", weather.date))
                       /\ Advance(i, j + 1)
                  ELSE /\ UNCHANGED <<store, log_lines, i, j, phase>>
                       /\ Raise(calls')
    /\ UNCHANGED <<env, calendars, run, events, today, keep_since, existing_events>>

\* sync_to_caldav has returned: main logs success and returns the log
Finish ==
    /\ pc = "return"
    /\ log_lines' = Append(log_lines, Line("success", None))
    /\ pc' = "done"
    /\ history' = Append(history, Outcome("done", calls, store))
    /\ UNCHANGED <<env, calendars, store, run, events, locals, calls>>

\* the script is run again on the same payload
NextRun ==
    /\ pc \in {"done", "failed"}
    /\ run < MaxRuns
    /\ run' = run + 1
    /\ pc' = "main"
    /\ events' = <<>>
    /\ log_lines' = <<>>
    /\ today' = None
    /\ keep_since' = None
    /\ existing_events' = <<>>
    /\ phase' = 0
    /\ i' = 1
    /\ j' = 1
    /\ calls' = <<>>
    /\ UNCHANGED <<env, calendars, store, history>>

Next ==
    \/ Parse
    \/ FindCalendar
    \/ MakeCalendar
    \/ ListEvents
    \/ ClassifyEntry
    \/ CreateEvent
    \/ Finish
    \/ NextRun

Spec == Init /\ [][Next]_vars

\* ------------------------------------------------- two runs at the same time
\* A second process runs the script on the same payload against the same
\* calendar.  Its locals are the fields of peer; it has parsed the payload and
\* found the calendar and is about to list the events.  The server handles one
\* request at a time; a DELETE of a resource that is gone fails (404).
PeerEvents == parse_weather_data(data).events
PeerNow == Now + 1
PeerToday == TodayOf(PeerEvents, PeerNow)
PeerKeepSince == KeepSince(PeerToday, KEEP_PAST_DAYS)

PeerAt(i2, j2) ==
    LET c == ControlAt(peer.phase, i2, Len(peer.existing_events), j2, Len(PeerEvents))
    IN  [peer EXCEPT !.i = i2, !.j = j2, !.pc = c.pc, !.phase = c.phase]

PeerList ==
    /\ peer.pc = "list"
    /\ LET c == ControlAt(1, 1, Len(store), 1, Len(PeerEvents))
       IN  peer' = [peer EXCEPT !.existing_events = store, !.pc = c.pc, !.phase = c.phase,
                                !.calls = Append(@, Call("events", "", TRUE))]
    /\ UNCHANGED <<data, KEEP_PAST_DAYS, budget, original, calendars, store, run, pc,
                   events, log_lines, locals, calls, history>>

PeerClassify ==
    /\ peer.pc = "classify"
    /\ LET ev == peer.existing_events[peer.i]
           act == EntryAction(ev, PeerToday, PeerKeepSince)
           ok == \E e \in Entries(store) : e.uid = ev.uid
       IN  CASE act = "error" ->
                  /\ UNCHANGED store
                  /\ peer' = IF Caught("icalendar_component")
                               THEN PeerAt(peer.i + 1, peer.j)
                               ELSE [peer EXCEPT !.pc = "failed"]
             [] act \in {"foreign", "unknown", "keep"} ->
                  /\ UNCHANGED store
                  /\ peer' = PeerAt(peer.i + 1, peer.j)
             [] act \in {"expired", "update"} ->
                  /\ store' = IF ok THEN Deleted(store, ev.uid) ELSE store
                  /\ peer' = [(IF ok \/ Caught("delete")
                                 THEN PeerAt(peer.i + 1, peer.j)
                                 ELSE [peer EXCEPT !.pc = "failed"])
                              EXCEPT !.calls = Append(@, Call("delete", ev.uid, ok))]
    /\ UNCHANGED <<data, KEEP_PAST_DAYS, budget, original, calendars, run, pc,
                   events, log_lines, locals, calls, history>>

PeerCreate ==
    /\ peer.pc = "create"
    /\ LET event == create_ical_event(PeerEvents[peer.j], PeerNow)
       IN  /\ store' = Saved(store, event)
           /\ peer' = [PeerAt(peer.i, peer.j + 1)
                          EXCEPT !.calls = Append(@, Call("save_event", event.uid, TRUE))]
    /\ UNCHANGED <<data, KEEP_PAST_DAYS, budget, original, calendars, run, pc,
                   events, log_lines, locals, calls, history>>

PeerFinish ==
    /\ peer.pc = "return"
    /\ peer' = [peer EXCEPT !.pc = "done"]
    /\ UNCHANGED <<data, KEEP_PAST_DAYS, budget, original, calendars, store, run, pc,
                   events, log_lines, locals, calls, history>>

\* calendars the two runs find: events to replace, to expire, to keep, to
\* skip, a foreign and a moved one
ConcurrentStores ==
    { <<>>,
      <<Written(10)>>,
      <<[Written(9) EXCEPT !.dtstart = [k |-> "DATE-TIME", v |-> 219]], Written(10)>>,
      <<Written(1), Written(2)>>,
      <<[Written(11) EXCEPT !.dtstart = [k |-> "NONE", v |-> 0]],
        Foreign("lunch@example.com", 10)>>,
      <<Moved>> }

\* the forecast of the next days, as far as it goes
ForecastDays ==
    << Block(252, "clear sky", 28315, 28015, 28515, "Expect a day of sun", "none"),
       Block(276, "light rain", 27545, 27345, 28295, Absent, "none"),
       Block(300, "clear sky", 28415, 28115, 28615, Absent, "none") >>

ConcurrentPayloads ==
    [timezone : {"UTC"},
     current : {Block(236, "clear sky", 28315, None, None, Absent, "none")},
     daily : { SubSeq(ForecastDays, 1, n) : n \in 0..MaxDaily }]

InitConcurrent ==
    /\ data \in ConcurrentPayloads
    /\ KEEP_PAST_DAYS \in RetentionChoices
    /\ calendars = {CALENDAR_NAME, "Personal"}
    /\ store \in ConcurrentStores
    /\ budget = 0
    /\ original = store
    /\ peer = [NoPeer EXCEPT !.pc = "list"]
    /\ StartOfRun

RunSteps ==
    \/ Parse
    \/ FindCalendar
    \/ ListEvents
    \/ ClassifyEntry
    \/ CreateEvent
    \/ Finish

PeerSteps ==
    \/ PeerList
    \/ PeerClassify
    \/ PeerCreate
    \/ PeerFinish

NextConcurrent == RunSteps \/ PeerSteps

\* each process, once started, runs on to its end
SpecConcurrent ==
    InitConcurrent /\ [][NextConcurrent]_vars /\ WF_vars(RunSteps) /\ WF_vars(PeerSteps)

\* ------------------------------------------------------- the parser on its own
\* noon UTC of days 9, 10 and 11, complete, and a day 11 without wind_speed
ParserBlocks ==
    { Block(228, "light rain", 27545, 27345, 28295, Absent, "none"),
      Block(252, "clear sky", 28315, 28015, 28515, "Expect a day of sun", "none"),
      Block(276, "light rain", 27545, 27345, 28295, Absent, "none"),
      Block(276, "light rain", 27545, 27345, 28295, Absent, "wind_speed") }

ParserPayloads ==
    [timezone : {"UTC", "Asia/Tokyo"},
     current : {Block(236, "clear sky", 28315, None, None, Absent, "none")},
     daily : SeqsUpTo(ParserBlocks, MaxBlocks)]

InitParser ==
    /\ data \in ParserPayloads
    /\ KEEP_PAST_DAYS = 7
    /\ calendars = {CALENDAR_NAME}
    /\ store = <<>>
    /\ budget = 0
    /\ original = <<>>
    /\ peer = NoPeer
    /\ StartOfRun

NextParser == Parse

SpecParser == InitParser /\ [][NextParser]_vars

\* ------------------------------------------------------- a run that is killed
\* the process dies between two steps (the n8n execution is stopped, the host goes
\* down): nothing more is done or logged; the server keeps what it was sent
Crash ==
    /\ pc \in {"connect", "make", "list", "classify", "create", "return"}
    /\ run < MaxRuns
    /\ pc' = "failed"
    /\ history' = Append(history, Outcome("crashed", calls, store))
    /\ UNCHANGED <<env, calendars, store, run, events, log_lines, locals, calls>>

\* calendars of up to MaxEntries events in the order listed, and one with a
\* moved event
CrashStores ==
    { st \in { Listed(P) : P \in { Q \in SUBSET DOMAIN ExistingChoices :
                                      Cardinality(Q) <= MaxEntries } } : UniqueUids(st) }
    \cup { <<Moved>> }

\* forecasts against calendars whose first content is remembered; the server
\* fails no call
InitCrash ==
    /\ data \in ForecastPayloads
    /\ KEEP_PAST_DAYS \in RetentionChoices
    /\ \/ calendars = {CALENDAR_NAME, "Personal"} /\ store \in CrashStores
       \/ calendars = {"weather"} /\ store = <<>>
    /\ budget = 0
    /\ original = store
    /\ peer = NoPeer
    /\ StartOfRun

NextCrash ==
    \/ Parse
    \/ FindCalendar
    \/ MakeCalendar
    \/ ListEvents
    \/ ClassifyEntry
    \/ CreateEvent
    \/ Finish
    \/ NextRun
    \/ Crash

SpecCrash == InitCrash /\ [][NextCrash]_vars

SpecPayloads == InitPayloads /\ [][Next]_vars

\* =================================================================== claims
\* vocabulary of the properties below
Visited == { k \in DOMAIN existing_events : k < i }
DeleteCalls(uid) == { k \in DOMAIN calls : calls[k].op = "delete" /\ calls[k].uid = uid }
SaveCalls == SelectSeq(calls, LAMBDA c : c.op = "save_event")
HasMarker(uid) == EndsWith(uid, NamespaceMarker)
\* an existing event the script can read, owns and can date
Dated(ev) == ev.parses /\ HasMarker(ev.uid) /\ ev.dtstart.k \in {"DATE", "DATE-TIME"}
DateOf(ev) == IF ev.dtstart.k = "DATE" THEN ev.dtstart.v ELSE ev.dtstart.v \div HoursPerDay
RecordDates == { events[k].date : k \in DOMAIN events }
Logged(kind) == \E k \in DOMAIN log_lines : log_lines[k].k = kind

\* C5 -- Phase ordering: in every run every delete call issued to the store
\* comes before the first save_event call; no delete follows a save.
C5_PhaseOrdering ==
    \A a, b \in DOMAIN calls :
        calls[a].op = "save_event" /\ calls[b].op = "delete" => b < a

C5_Witness ==
    /\ pc = "done"
    /\ \E a, b \in DOMAIN calls : calls[a].op = "delete" /\ calls[b].op = "save_event"

\* C2 -- Foreign isolation: an event whose uid does not end with the
\* namespace marker is never deleted and never overwritten by any step of any
\* run, whatever its date: it stays in the store as it is.
C2_ForeignIsolation ==
    [][\A e \in Entries(store) : ~HasMarker(e.uid) => e \in Entries(store)']_vars

\* a completed run that met a foreign event dated today or later, left it in
\* place, and deleted an owned event
C2_Witness ==
    /\ pc = "done"
    /\ \E k \in Visited :
         /\ ~HasMarker(existing_events[k].uid)
         /\ DateOf(existing_events[k]) >= today
         /\ existing_events[k] \in Entries(store)
    /\ \E k \in DOMAIN calls : calls[k].op = "delete" /\ calls[k].ok

\* C3 -- Retention boundary: of the owned, dated events the loop has visited,
\* one dated before today - KEEP_PAST_DAYS has had a delete issued (and is gone
\* if the delete succeeded), one dated in [today - KEEP_PAST_DAYS, today) has
\* had none; so with 7 days D-7 is kept and D-8 deleted, and with 0 days every
\* owned event before today is deleted.
C3_RetentionBoundary ==
    \A k \in Visited :
        LET ev == existing_events[k]
            d == DateOf(ev)
        IN  Dated(ev) =>
              /\ d < today - KEEP_PAST_DAYS =>
                   /\ DeleteCalls(ev.uid) # {}
                   /\ (\E c \in DeleteCalls(ev.uid) : calls[c].ok) => ev \notin Entries(store)
              /\ (today - KEEP_PAST_DAYS <= d /\ d < today) =>
                   /\ DeleteCalls(ev.uid) = {}
                   /\ ev \in Entries(store)
              /\ (KEEP_PAST_DAYS = 0 /\ d < today) => DeleteCalls(ev.uid) # {}

\* with 7 days: a visited event dated D-7 kept and one dated D-8 deleted
C3_Witness ==
    /\ KEEP_PAST_DAYS = 7
    /\ \E a, b \in Visited :
         /\ Dated(existing_events[a]) /\ DateOf(existing_events[a]) = today - 7
         /\ existing_events[a] \in Entries(store)
         /\ Dated(existing_events[b]) /\ DateOf(existing_events[b]) = today - 8
         /\ existing_events[b] \notin Entries(store)

\* C4 (as claimed) -- after a run that completes, for each owned existing
\* event dated today or later the store again holds an owned event for that
\* date written by the creation phase of the run.
WrittenThisRun(d) ==
    \E e \in Entries(store) : Dated(e) /\ DateOf(e) = d /\ e.dtstamp = Now

C4_AlwaysRecreated ==
    pc = "done" =>
      \A k \in DOMAIN existing_events :
          LET ev == existing_events[k]
          IN  Dated(ev) /\ DateOf(ev) >= today => WrittenThisRun(DateOf(ev))

\* C4 (amended) -- every owned existing event dated today or later has a
\* delete issued for it, before any save; after a run that completes the store
\* holds an owned event for its date written by this run exactly when a new
\* record has that date: an event whose date no new record has is deleted and
\* not recreated.
C4_DeletedRecreatedIfForecast ==
    /\ \A k \in Visited :
          LET ev == existing_events[k]
          IN  Dated(ev) /\ DateOf(ev) >= today =>
                /\ DeleteCalls(ev.uid) # {}
                /\ \A c \in DeleteCalls(ev.uid), a \in DOMAIN calls :
                       calls[a].op = "save_event" => c < a
    /\ pc = "done" =>
          \A k \in DOMAIN existing_events :
              LET ev == existing_events[k]
              IN  Dated(ev) /\ DateOf(ev) >= today =>
                    /\ k \in Visited
                    /\ WrittenThisRun(DateOf(ev)) <=> DateOf(ev) \in RecordDates
                    /\ (DateOf(ev) \notin RecordDates
                        /\ \E c \in DeleteCalls(ev.uid) : calls[c].ok) => ev \notin Entries(store)

\* a completed run that found an event dated today (recreated) and one dated
\* after the last forecast day (deleted for good)
C4_Witness ==
    /\ pc = "done"
    /\ \E a, b \in DOMAIN existing_events :
         /\ Dated(existing_events[a]) /\ DateOf(existing_events[a]) = today
         /\ WrittenThisRun(today)
         /\ Dated(existing_events[b]) /\ DateOf(existing_events[b]) > today
         /\ DateOf(existing_events[b]) \notin RecordDates
         /\ existing_events[b] \notin Entries(store)

\* C6 (as claimed) -- a failed listing, delete or save is fatal at once: it is
\* the last store call of the run and the run does not report success.
FailedCalls(ops) == { k \in DOMAIN calls : ~calls[k].ok /\ calls[k].op \in ops }

C6_AnyFailureFatal ==
    \A k \in FailedCalls({"events", "delete", "save_event"}) :
        /\ pc = "failed"
        /\ k = Len(calls)
        /\ ~Logged("success")

\* C6 (amended) -- a failed listing or save is fatal at once (last store call
\* of the run, no success reported); a failed delete is caught by the loop's
\* handler: the error is logged and the run goes on, so if the run is failed
\* later it is by another call.
C6_ListOrSaveFailureFatal ==
    /\ \A k \in FailedCalls({"events", "save_event"}) :
          /\ pc = "failed"
          /\ k = Len(calls)
          /\ ~Logged("success")
    /\ \A k \in FailedCalls({"delete"}) :
          /\ Logged("error")
          /\ pc = "failed" => k < Len(calls)

\* a run whose delete failed, went on to save the records and reported success
C6_Witness ==
    /\ pc = "done"
    /\ Logged("success")
    /\ \E k \in FailedCalls({"delete"}), a \in DOMAIN calls :
         k < a /\ calls[a].op = "save_event" /\ calls[a].ok

\* C7 -- Per-entry failure isolation: when the processing of an existing event
\* raises (its data does not parse, or its delete fails), the error is logged,
\* the event is not deleted, the run is not ended by it, every remaining event
\* is still visited before the saves, and a run that completes has issued one
\* save per record, in order.
Raised(k) ==
    \/ ~existing_events[k].parses
    \/ \E c \in DeleteCalls(existing_events[k].uid) : ~calls[c].ok

C7_EntryFailureIsolated ==
    \A k \in Visited :
        Raised(k) =>
          /\ Logged("error")
          /\ \A c \in DeleteCalls(existing_events[k].uid) : ~calls[c].ok
          /\ \E e \in Entries(store) : e.uid = existing_events[k].uid
          /\ pc = "failed" =>
               /\ calls # <<>>
               /\ ~calls[Len(calls)].ok
               /\ calls[Len(calls)].op # "delete"
          /\ pc \in {"create", "return", "done"} => Visited = DOMAIN existing_events
          /\ pc = "done" =>
               /\ Len(SaveCalls) = Len(events)
               /\ \A m \in DOMAIN events :
                    SaveCalls[m].ok /\ SaveCalls[m].uid = EventUid(events[m])

\* a completed run whose first existing event did not parse and whose second
\* was then deleted
C7_Witness ==
    /\ pc = "done"
    /\ Len(existing_events) = 2
    /\ ~existing_events[1].parses
    /\ \E c \in DeleteCalls(existing_events[2].uid) : calls[c].ok
    /\ Len(SaveCalls) = Len(events)

\* C1 -- Idempotence: when two runs in a row on the same payload both complete
\* with no store call failing, the second leaves the same set of remote
\* entries (identity, dates, title) as the first left, and after such a run no
\* date has two owned events.
CleanRun(k) == history[k].result = "done" /\ history[k].failures = 0

OneOwnedPerDate(S) ==
    \A a, b \in S : Dated(a) /\ Dated(b) /\ DateOf(a) = DateOf(b) => a = b

C1_Idempotence ==
    (pc = "done" /\ CleanRun(run)) =>
      /\ OneOwnedPerDate(Entries(store))
      /\ (run > 1 /\ CleanRun(run - 1)) =>
           history[run].entries = history[run - 1].entries

\* a second clean run that again deleted and rewrote what the first had written,
\* the first having deleted an event it found
C1_Witness ==
    /\ pc = "done"
    /\ run = 2
    /\ CleanRun(1)
    /\ CleanRun(2)
    /\ history[1].entries # {}
    /\ \E k \in DOMAIN calls : calls[k].op = "delete" /\ calls[k].ok
    /\ \E e \in Entries(store) : ~HasMarker(e.uid)
    /\ \E e \in Entries(store) : HasMarker(e.uid) /\ e.dtstamp = Now

\* C8 -- the parsed records hold exactly one record with is_current, every
\* other record is dated strictly after it, and no two records share a date.
C8_RecordsDistinctAndLater ==
    events # <<>> =>
      /\ Cardinality({k \in DOMAIN events : events[k].is_current}) = 1
      /\ \A a, b \in DOMAIN events :
           /\ (events[a].is_current /\ ~events[b].is_current)
                => events[b].date > events[a].date
           /\ a # b => events[a].date # events[b].date

\* C9 -- Identity is a function of the date only: the saves issued for two
\* records of equal date carry the same uid whatever the records' content, the
\* uid ends with the namespace marker, and once saved the date has one event
\* under that uid, not two.
C9_IdentityFromDateOnly ==
    \A a, b \in DOMAIN SaveCalls :
        /\ HasMarker(SaveCalls[a].uid)
        /\ (a <= Len(events) /\ b <= Len(events) /\ events[a].date = events[b].date) =>
             /\ SaveCalls[a].uid = SaveCalls[b].uid
             /\ (SaveCalls[a].ok /\ SaveCalls[b].ok) =>
                  Cardinality({e \in Entries(store) : Dated(e) /\ DateOf(e) = events[a].date}) = 1

\* two records of one date and different description, temperature and summary,
\* both saved
C9_Witness ==
    /\ pc = "done"
    /\ \E a, b \in DOMAIN events :
         /\ a # b
         /\ events[a].date = events[b].date
         /\ events[a].description # events[b].description
         /\ events[a].temp # events[b].temp
         /\ events[a].summary # events[b].summary
         /\ Len(SaveCalls) = Len(events)

\* C10 (as claimed) -- a payload whose timezone is missing or invalid, or whose
\* current block or any daily block lacks a required field, fails the run
\* before any store call.
NoStoreCallYet == calls = <<>> /\ pc \in {"main", "failed"}

BadTimezone == data.timezone \notin {"UTC", "Asia/Tokyo"}
Lacks(block) == block.missing \in {"temp", "feels_like", "humidity", "wind_speed"}

C10_AnyMissingFieldFatal ==
    (BadTimezone \/ Lacks(data.current) \/ \E k \in DOMAIN data.daily : Lacks(data.daily[k]))
        => NoStoreCallYet

\* C10 (amended) -- a payload whose timezone is missing or invalid, or whose
\* current block lacks a required field, or one of whose daily blocks dated
\* other than the current date lacks one, fails the run before any store call;
\* a daily block on the current date is skipped unread.
OnCurrentDate(block) ==
    (block.dt + ZoneOffsets[data.timezone]) \div HoursPerDay
        = (data.current.dt + ZoneOffsets[data.timezone]) \div HoursPerDay

C10_ReadMissingFieldFatal ==
    (\/ BadTimezone
     \/ Lacks(data.current)
     \/ \E k \in DOMAIN data.daily : Lacks(data.daily[k]) /\ ~OnCurrentDate(data.daily[k]))
        => NoStoreCallYet

\* a run ended by a daily block without humidity, the timezone and the current
\* block being in order
C10_Witness ==
    /\ pc = "failed"
    /\ calls = <<>>
    /\ ~BadTimezone
    /\ ~Lacks(data.current)
    /\ \E k \in DOMAIN data.daily : data.daily[k].missing = "humidity"

\* C11 -- an owned existing event whose date cannot be determined is skipped:
\* one "unknown date" line is logged per such event visited, no delete is
\* issued for it, the run is not ended by it, every remaining event is still
\* visited and a run that completes has issued one save per record.
Undated(ev) == ev.parses /\ HasMarker(ev.uid) /\ ev.dtstart.k \notin {"DATE", "DATE-TIME"}

C11_UnknownDateSkipped ==
    /\ Cardinality({k \in DOMAIN log_lines : log_lines[k].k = "skip_unknown_date"})
         = Cardinality({k \in Visited : Undated(existing_events[k])})
    /\ \A k \in Visited :
          Undated(existing_events[k]) =>
            /\ DeleteCalls(existing_events[k].uid) = {}
            /\ pc = "failed" => (calls # <<>> /\ ~calls[Len(calls)].ok)
            /\ pc \in {"create", "return", "done"} => Visited = DOMAIN existing_events
            /\ pc = "done" => Len(SaveCalls) = Len(events)

\* a completed run that skipped an event without dtstart, then deleted the next
\* event and saved the records
C11_Witness ==
    /\ pc = "done"
    /\ Len(existing_events) = 2
    /\ Undated(existing_events[1])
    /\ Logged("skip_unknown_date")
    /\ \E c \in DeleteCalls(existing_events[2].uid) : calls[c].ok
    /\ Len(SaveCalls) = Len(events)
    /\ events # <<>>

\* C12 -- every owned existing event dated in the retention window
\* (today - KEEP_PAST_DAYS <= date < today) that the loop has visited has no
\* delete issued for it and is in the store with its content unchanged, during
\* the creation phase and when the run has ended.
InWindow(ev) == Dated(ev) /\ today - KEEP_PAST_DAYS <= DateOf(ev) /\ DateOf(ev) < today

C12_WindowEntriesUntouched ==
    \A k \in Visited :
        InWindow(existing_events[k]) =>
          /\ DeleteCalls(existing_events[k].uid) = {}
          /\ existing_events[k] \in Entries(store)

\* C13 -- Self-healing: whatever runs were cut short before it (while deleting,
\* between the two loops, while saving), a run on the same payload that
\* completes leaves the entries that one uninterrupted run on the calendar's
\* first content leaves: the events of that content the run neither deletes by
\* date nor replaces by uid, and the rendering of the records.
RecordUids == { EventUid(events[k]) : k \in DOMAIN events }

\* the rendering that stays for a uid: that of the last record bearing it
Rendered ==
    { create_ical_event(events[k], Now) : k \in { m \in DOMAIN events :
          \A n \in DOMAIN events : EventUid(events[n]) = EventUid(events[m]) => n <= m } }

DeletedByDate(ev) ==
    Dated(ev) /\ (DateOf(ev) < MinOf(RecordDates) - KEEP_PAST_DAYS \/ DateOf(ev) >= MinOf(RecordDates))

LeftByOneRun ==
    Ids({ e \in Entries(original) : ~DeletedByDate(e) /\ e.uid \notin RecordUids })
        \cup Ids(Rendered)

C13_SelfHealing ==
    pc = "done" => Ids(Entries(store)) = LeftByOneRun

\* a second run that completed after the first was cut short in its creation
\* phase, having deleted an event and saved some records but not all
C13_Witness ==
    /\ pc = "done"
    /\ run = 2
    /\ history[1].result = "crashed"
    /\ \E e \in Ids(Entries(original)) : e \notin history[1].entries
    /\ \E e \in history[1].entries : e \notin Ids(Entries(original))
    /\ \E e \in Ids(Rendered) : e \notin history[1].entries

\* C14 -- for a payload the parser accepts, the records are one for the current
\* block followed by one for each daily block whose local date differs from the
\* current date, in the payload's order: 1 + the number of such blocks in all
\* (two later days and one block for the current day give 3 records).
OtherDays == SelectSeq(data.daily, LAMBDA block : ~OnCurrentDate(block))

C14_OneRecordPerOtherDay ==
    pc = "connect" =>
      /\ Len(events) = 1 + Cardinality({k \in DOMAIN data.daily : ~OnCurrentDate(data.daily[k])})
      /\ events[1].is_current
      /\ events[1].date = (data.current.dt + ZoneOffsets[data.timezone]) \div HoursPerDay
      /\ events[1].description = data.current.description
      /\ \A m \in DOMAIN OtherDays :
           /\ ~events[m + 1].is_current
           /\ events[m + 1].date = (OtherDays[m].dt + ZoneOffsets[data.timezone]) \div HoursPerDay
           /\ events[m + 1].description = OtherDays[m].description
           /\ events[m + 1].temp = OtherDays[m].temp - 27315

\* a daily list of a later day, the current day and another later day: 3 records
C14_Witness ==
    /\ pc = "connect"
    /\ Len(data.daily) = 3
    /\ ~OnCurrentDate(data.daily[1])
    /\ OnCurrentDate(data.daily[2])
    /\ ~OnCurrentDate(data.daily[3])
    /\ events[2].date > events[1].date
    /\ events[3].date > events[2].date
    /\ Len(events) = 3

\* C15 -- Calendar selection precedes reconciliation: a listing, delete or save
\* is issued only after a successful lookup, with a calendar named exactly
\* CALENDAR_NAME on the server and selected, and after the creation if there
\* was one; the creation is called only when no calendar has that name, and as
\* long as none has it the run is at or before the creation or has failed; a
\* failed creation ends the run with no listing, delete or save.
Reconciling(k) == calls[k].op \in {"events", "delete", "save_event"}
MakeCalls == { k \in DOMAIN calls : calls[k].op = "make_calendar" }

C15_CalendarBeforeReconciling ==
    /\ \A k \in DOMAIN calls :
          Reconciling(k) =>
            /\ CALENDAR_NAME \in calendars
            /\ Logged("use_calendar")
            /\ \E c \in 1..(k - 1) : calls[c].op = "calendars" /\ calls[c].ok
            /\ \A m \in MakeCalls : m < k /\ calls[m].ok
    /\ pc = "make" => CALENDAR_NAME \notin calendars
    /\ MakeCalls # {} => Logged("create_calendar") /\ Cardinality(MakeCalls) = 1
    /\ CALENDAR_NAME \notin calendars => pc \in {"main", "connect", "make", "failed"}
    /\ \A m \in MakeCalls :
          ~calls[m].ok =>
            /\ pc = "failed"
            /\ m = Len(calls)
            /\ CALENDAR_NAME \notin calendars
            /\ \A k \in DOMAIN calls : ~Reconciling(k)
            /\ store = <<>>

\* a completed run that found only a calendar named "weather", created
\* "Weather" and saved the records into it
C15_Witness ==
    /\ pc = "done"
    /\ "weather" \in calendars
    /\ \E m \in MakeCalls : calls[m].ok
    /\ \E k \in DOMAIN calls : calls[k].op = "events" /\ calls[k].ok
    /\ Len(SaveCalls) = Len(events)
    /\ events # <<>>

\* C16 -- two runs at the same time on one payload, each with its own listing,
\* their deletes and saves interleaved in any order: both come to their end,
\* and once both have, the store holds for each date of the records exactly one
\* owned event, the rendering of the record.
BothDone == pc = "done" /\ peer.pc = "done"

OnePerRecordDate ==
    /\ \A d \in RecordDates :
          Cardinality({k \in DOMAIN store : Dated(store[k]) /\ DateOf(store[k]) = d}) = 1
    /\ Ids(Rendered) \subseteq Ids(Entries(store))

C16_ConcurrentRunsConverge ==
    /\ [](BothDone => OnePerRecordDate)
    /\ <>BothDone

\* both runs done, each having listed the same old event: one deleted it, the
\* other's delete found it gone
C16_Witness ==
    /\ BothDone
    /\ \E a \in DOMAIN calls, b \in DOMAIN peer.calls :
         /\ calls[a].op = "delete"
         /\ peer.calls[b].op = "delete"
         /\ calls[a].uid = peer.calls[b].uid
         /\ calls[a].ok # peer.calls[b].ok
    /\ events # <<>>

\* C17 -- after a run that completes with no store call failing, the owned
\* dated events in the store are exactly the events of the retention window
\* the run found plus one event per record; none is dated before
\* today - KEEP_PAST_DAYS, and a date from today on has an owned event exactly
\* when a record has that date.
OwnedDated == { e \in Entries(store) : Dated(e) }
KeptOfWindow == { existing_events[k] : k \in { m \in DOMAIN existing_events :
                                                 InWindow(existing_events[m]) } }

C17_PostState ==
    (pc = "done" /\ Failures(calls) = 0) =>
      /\ KeptOfWindow \subseteq OwnedDated
      /\ Cardinality(OwnedDated \ KeptOfWindow) = Len(events)
      /\ \A e \in OwnedDated : DateOf(e) >= today - KEEP_PAST_DAYS
      /\ \A e \in OwnedDated : DateOf(e) >= today => DateOf(e) \in RecordDates
      /\ \A d \in RecordDates : \E e \in OwnedDated : DateOf(e) = d

\* C18 -- once the sync has computed it, today is the date of the
\* current-conditions record, every record is dated today or later, and the
\* retention cut-off is today - KEEP_PAST_DAYS.
C18_TodayIsCurrentDate ==
    (today # None /\ events # <<>>) =>
      /\ \A k \in DOMAIN events : events[k].is_current => today = events[k].date
      /\ \A k \in DOMAIN events : events[k].date >= today
      /\ keep_since = today - KEEP_PAST_DAYS

\* C19 -- Date round trip: the event rendered for a record is an all-day span
\* from the record's date to the day after, and _extract_event_date reads the
\* record's date back from it; so an event a run of the script has written
\* bears the uid of the date read from it, and a later run that visits it
\* never takes it for an event of unknown date.
WrittenByRun(ev) == HasMarker(ev.uid) /\ ev.dtstamp > 0

C19_DateRoundTrip ==
    /\ \A k \in DOMAIN events :
          LET ev == create_ical_event(events[k], Now)
          IN  /\ _extract_event_date(ev) = events[k].date
              /\ ev.dtstart = [k |-> "DATE", v |-> events[k].date]
              /\ ev.dtend = [k |-> "DATE", v |-> events[k].date + 1]
    /\ \A ev \in Entries(store) :
          WrittenByRun(ev) =>
            /\ _extract_event_date(ev) # None
            /\ ev.uid = "md5<weather-" \o ToString(_extract_event_date(ev)) \o ">@weather-calendar"
    /\ \A k \in Visited :
          WrittenByRun(existing_events[k]) =>
            /\ ~Undated(existing_events[k])
            /\ EntryAction(existing_events[k], today, keep_since) \in {"expired", "update", "keep"}

\* a second run, under Asia/Tokyo, that has visited and deleted for replacement
\* an event the first run wrote
C19_Witness ==
    /\ run = 2
    /\ pc = "done"
    /\ data.timezone = "Asia/Tokyo"
    /\ \E k \in Visited :
         /\ WrittenByRun(existing_events[k])
         /\ \E c \in DeleteCalls(existing_events[k].uid) : calls[c].ok
    /\ ~Logged("skip_unknown_date")

====
